---- MODULE Spec2Model ----
(***************************************************************************)
(* LeapTime Manager: the schedule-interval engine (scheduler.py,           *)
(* ScheduleManager) and the rsync command planner (rsync_backend.py).      *)
(*                                                                         *)
(* Text is modelled as a sequence of tokens.  A token is either a keyword  *)
(* or path component standing for its run of letters ("custom", "days",    *)
(* "a"), a digit, a sign, a blank, or a separator (":" or "/").  Splitting,*)
(* stripping, joining, int() and str() work on these sequences the way the *)
(* Python string operations work on characters.                            *)
(*                                                                         *)
(* A Python call's outcome is a record: Ret(v) when it returns v,          *)
(* Raise(e) when exception e leaves the call.                              *)
(***************************************************************************)
EXTENDS Integers, Sequences, FiniteSets, TLC

\* ---------------------------------------------------------------- bounds
\* Largest custom interval value drawn as an input (two decimal digits).
MaxValue == 11
\* Most colon-separated fields of a schedule text drawn as an input.
MaxFields == 3
\* Deepest path drawn as an include entry, in components.
MaxDepth == 3
\* Most include entries (directories and files together) of one call.
MaxInc == 2
\* Most exclude entries (directories and files together) of one call.
MaxExc == 2
\* Most files a transfer archives.
MaxFiles == 1
\* Most prepare and finish calls made on the instance.
MaxCalls == 3
\* Last minute the wall clock reaches.
MaxClock == 1

VARIABLES
    sched_op,       \* the ScheduleManager operation called last ("none" at start)
    interval_str,   \* its interval_str argument (text)
    interval_dict,  \* the interval dict given to format_interval
    last_run,       \* the last_run argument of is_due
    now_reads,      \* the values datetime.now() returned during the call, in order
    sched_out,      \* the outcome of the call
    \* build_rsync_patterns: its four arguments and the list it returned
    built,          \* whether build_rsync_patterns has been called
    included_files,
    included_dirs,
    excluded_files,
    excluded_dirs,
    patterns,
    \* one rsync_backend instance and what is around it
    self,           \* the attributes set on the instance so far
    errors,         \* the error list given to the constructor
    data_db_list,   \* the in-memory history list
    db,             \* what the store holds
    handed,         \* the lists given to write_db so far
    fs,             \* the directories that exist
    clock,          \* the wall clock, in minutes
    calls,          \* how many prepare and finish calls were made
    last_op,        \* the planner method called last
    ret,            \* its outcome
    request         \* what the most recent prepare call was called with and drew

sched_vars == <<sched_op, interval_str, interval_dict, last_run, now_reads, sched_out>>

filter_vars ==
    <<built, included_files, included_dirs, excluded_files, excluded_dirs, patterns>>

plan_vars ==
    <<self, errors, data_db_list, db, handed, fs, clock, calls, last_op, ret, request>>

vars == <<sched_vars, filter_vars, plan_vars>>

\* ------------------------------------------------------- Python outcomes
Ret(v) == [kind |-> "return", val |-> v]
Raise(e) == [kind |-> "raise", exc |-> e]
\* Python's None, as a record so that it compares with dicts.
None == [none |-> TRUE]

\* dict.get(key, default)
Get(d, key, default) == IF key \in DOMAIN d THEN d[key] ELSE default

\* ------------------------------------------------------------- text
Digits == <<"0", "1", "2", "3", "4", "5", "6", "7", "8", "9">>
DigitSet == {Digits[i] : i \in 1..10}
DigitVal(c) == (CHOOSE i \in 1..10 : Digits[i] = c) - 1

\* str.split(sep): the fields between the separators, empty fields kept.
RECURSIVE SplitFrom(_, _, _, _)
SplitFrom(s, sep, i, cur) ==
    IF i > Len(s) THEN <<cur>>
    ELSE IF s[i] = sep THEN <<cur>> \o SplitFrom(s, sep, i + 1, <<>>)
    ELSE SplitFrom(s, sep, i + 1, Append(cur, s[i]))

Split(s, sep) == SplitFrom(s, sep, 1, <<>>)

\* sep.join(fields)
RECURSIVE Join(_, _)
Join(fields, sep) ==
    IF fields = <<>> THEN <<>>
    ELSE IF Len(fields) = 1 THEN fields[1]
    ELSE fields[1] \o <<sep>> \o Join(Tail(fields), sep)

\* str.strip(): blanks removed from both ends.
RECURSIVE StripBlanks(_)
StripBlanks(s) ==
    IF s = <<>> THEN s
    ELSE IF s[1] = " " THEN StripBlanks(Tail(s))
    ELSE IF s[Len(s)] = " " THEN StripBlanks(SubSeq(s, 1, Len(s) - 1))
    ELSE s

RECURSIVE DigitsValue(_)
DigitsValue(s) ==
    IF s = <<>> THEN 0
    ELSE 10 * DigitsValue(SubSeq(s, 1, Len(s) - 1)) + DigitVal(s[Len(s)])

\* What int(text) accepts: blanks around an optional sign and one or more digits.
IntBody(s) ==
    LET t == StripBlanks(s)
    IN IF t # <<>> /\ t[1] \in {"+", "-"} THEN Tail(t) ELSE t

IsIntLiteral(s) ==
    /\ IntBody(s) # <<>>
    /\ \A i \in 1..Len(IntBody(s)) : IntBody(s)[i] \in DigitSet

\* int(text): the integer, or ValueError.
PyInt(s) ==
    IF ~IsIntLiteral(s) THEN Raise("ValueError")
    ELSE LET t == StripBlanks(s)
             v == DigitsValue(IntBody(s))
         IN Ret(IF t[1] = "-" THEN 0 - v ELSE v)

\* str(n) for an integer n.
RECURSIVE NatStr(_)
NatStr(n) ==
    IF n < 10 THEN <<Digits[n + 1]>>
    ELSE Append(NatStr(n \div 10), Digits[(n % 10) + 1])

PyStr(n) == IF n < 0 THEN <<"-">> \o NatStr(0 - n) ELSE NatStr(n)

\* --------------------------------------------------- ScheduleManager
FixedKinds == {<<"hourly">>, <<"daily">>, <<"weekly">>, <<"monthly">>}
CUSTOM == <<"custom">>
Units == {<<"hours">>, <<"days">>, <<"weeks">>}

\* ScheduleManager.parse_interval(interval_str)
parse_interval(s) ==
    IF s = <<>> THEN Ret(None)
    ELSE LET parts == Split(s, ":")
             interval_type == parts[1]
         IN IF interval_type \in FixedKinds
            THEN Ret([type |-> interval_type])
            ELSE IF interval_type = CUSTOM /\ Len(parts) = 3
            THEN LET v == PyInt(parts[2])
                 IN IF v.kind = "raise" THEN v
                    ELSE Ret([type |-> CUSTOM, value |-> v.val, unit |-> parts[3]])
            ELSE Ret(None)

\* A plausible slip: the value and the unit written in the other order.
format_interval_swapped(d) ==
    IF d = None \/ DOMAIN d = {} THEN <<>>
    ELSE LET interval_type == Get(d, "type", <<>>)
         IN IF interval_type \in FixedKinds THEN interval_type
            ELSE IF interval_type = CUSTOM
            THEN CUSTOM \o <<":">> \o Get(d, "unit", <<"days">>)
                        \o <<":">> \o PyStr(Get(d, "value", 1))
            ELSE <<>>

\* ScheduleManager.format_interval(interval_dict)
format_interval(d) ==
    IF d = None \/ DOMAIN d = {} THEN <<>>
    ELSE LET interval_type == Get(d, "type", <<>>)
         IN IF interval_type \in FixedKinds THEN interval_type
            ELSE IF interval_type = CUSTOM
            THEN CUSTOM \o <<":">> \o PyStr(Get(d, "value", 1))
                        \o <<":">> \o Get(d, "unit", <<"days">>)
            ELSE <<>>

\* Time is counted in minutes, the resolution of the "%Y-%m-%d %H:%M" format.
HOUR == 60
DAY == 24 * HOUR
WEEK == 7 * DAY

NoTime == [notime |-> TRUE]
AtTime(t) == [t |-> t]

\* The last_run argument: None, a datetime, or text that strptime accepts
\* (giving its time) or rejects with ValueError.
LastRunNone == [type |-> "None"]
LastRunDatetime(t) == [type |-> "datetime", t |-> t]
LastRunText(t) == [type |-> "str", valid |-> TRUE, t |-> t]
LastRunBadText == [type |-> "str", valid |-> FALSE]

\* ScheduleManager.get_next_run_time(interval_dict, last_run); now is what
\* datetime.now() returns inside the call.
get_next_run_time(d, lr, now) ==
    IF d = None \/ DOMAIN d = {} THEN NoTime
    ELSE LET base == IF lr.type = "None" THEN now
                     ELSE IF lr.type = "str"
                          THEN (IF lr.valid THEN lr.t ELSE now)
                     ELSE lr.t
             interval_type == Get(d, "type", <<>>)
             value == Get(d, "value", 1)
             unit == Get(d, "unit", <<"days">>)
         IN IF interval_type = <<"hourly">> THEN AtTime(base + HOUR)
            ELSE IF interval_type = <<"daily">> THEN AtTime(base + DAY)
            ELSE IF interval_type = <<"weekly">> THEN AtTime(base + WEEK)
            ELSE IF interval_type = <<"monthly">> THEN AtTime(base + 30 * DAY)
            ELSE IF interval_type = CUSTOM
            THEN (IF unit = <<"hours">> THEN AtTime(base + value * HOUR)
                  ELSE IF unit = <<"days">> THEN AtTime(base + value * DAY)
                  ELSE IF unit = <<"weeks">> THEN AtTime(base + value * WEEK)
                  ELSE NoTime)
            ELSE NoTime

\* ScheduleManager.is_due(interval_str, last_run); now1 is the clock as
\* get_next_run_time reads it, now2 as the final comparison reads it.
is_due(s, lr, now1, now2) ==
    LET p == parse_interval(s)
    IN IF p.kind = "raise" THEN p
       ELSE IF p.val = None THEN Ret(FALSE)
       ELSE LET next_run == get_next_run_time(p.val, lr, now1)
            IN IF next_run = NoTime THEN Ret(FALSE)
               ELSE Ret(now2 >= next_run.t)

\* ----------------------------------------------------- schedule inputs
\* The fields a schedule text is put together from.
NumberFields == {PyStr(n) : n \in {0, 1, MaxValue}}
TextFields ==
    FixedKinds \cup {CUSTOM} \cup Units \cup NumberFields
    \cup {<<"months">>, <<"x">>, <<>>, <<"-", "1">>, <<" ", "2">>, <<"1", "x">>}

Texts ==
    {<<>>} \cup
    UNION {{Join(fields, ":") : fields \in [1..n -> TextFields]} : n \in 1..MaxFields}

\* The interval dicts given to format_interval: every valid schedule, and
\* some loosely-typed ones.
ValidSpecs ==
    {[type |-> k] : k \in FixedKinds}
    \cup {[type |-> CUSTOM, value |-> v, unit |-> u] : v \in 1..MaxValue, u \in Units}

LooseSpecs ==
    {None, [type |-> CUSTOM], [type |-> CUSTOM, value |-> 0, unit |-> <<"days">>],
     [type |-> CUSTOM, value |-> 2, unit |-> <<"months">>], [type |-> <<"yearly">>]}

\* Texts given to is_due: the fixed kinds and custom texts of three fields.
DueTexts ==
    FixedKinds \cup {<<>>, <<"bogus">>, CUSTOM}
    \cup {Join(<<CUSTOM, v, u>>, ":") :
            v \in {<<"0">>, <<"1">>, <<"2">>, <<"-", "1">>, <<"x">>},
            u \in Units \cup {<<"months">>}}

\* The moment last_run names, and the moments the clock may show after it:
\* each schedule's offset, one minute before it and one minute after it.
LastRunAt == 100000
DueOffsets ==
    {0, HOUR, 2 * HOUR, DAY, 2 * DAY, WEEK, 2 * WEEK, 30 * DAY}
NowValues == {LastRunAt + o + e : o \in DueOffsets, e \in {-1, 0, 1}}
LastRuns ==
    {LastRunNone, LastRunBadText, LastRunText(LastRunAt), LastRunDatetime(LastRunAt)}

\* --------------------------------------------------------------- actions
SchedInit ==
    /\ sched_op = "none"
    /\ interval_str = <<>>
    /\ interval_dict = None
    /\ last_run = LastRunNone
    /\ now_reads = <<>>
    /\ sched_out = Ret(None)

\* The static methods keep no state: one call from the start shows all they do.
\* A call of parse_interval on any text.
ParseInterval ==
    /\ sched_op = "none"
    /\ \E s \in Texts :
        /\ sched_op' = "parse_interval"
        /\ interval_str' = s
        /\ sched_out' = parse_interval(s)
        /\ UNCHANGED <<interval_dict, last_run, now_reads>>
    /\ UNCHANGED <<filter_vars, plan_vars>>

\* format_interval on an interval dict, and parse_interval on what it gave.
FormatThenParse ==
    /\ sched_op = "none"
    /\ \E d \in ValidSpecs \cup LooseSpecs :
        /\ sched_op' = "format_parse"
        /\ interval_dict' = d
        /\ interval_str' = format_interval(d)
        /\ sched_out' = parse_interval(format_interval(d))
        /\ UNCHANGED <<last_run, now_reads>>
    /\ UNCHANGED <<filter_vars, plan_vars>>

\* A call of is_due; the clock does not go back between its two reads.
IsDue ==
    /\ sched_op = "none"
    /\ \E s \in DueTexts, lr \in LastRuns, now1 \in NowValues, skew \in {0, 1} :
        /\ sched_op' = "is_due"
        /\ interval_str' = s
        /\ last_run' = lr
        /\ now_reads' = <<now1, now1 + skew>>
        /\ sched_out' = is_due(s, lr, now1, now1 + skew)
        /\ UNCHANGED interval_dict
    /\ UNCHANGED <<filter_vars, plan_vars>>

SchedNext == ParseInterval \/ FormatThenParse \/ IsDue

\* ------------------------------------------- rsync_backend: filter rules
INCLUDE == <<"--include">>
EXCLUDE == <<"--exclude">>
STAR == <<"*">>

\* str.rstrip('/')
RECURSIVE RStripSlash(_)
RStripSlash(s) ==
    IF s # <<>> /\ s[Len(s)] = "/" THEN RStripSlash(SubSeq(s, 1, Len(s) - 1))
    ELSE s

\* pathlib.Path(path).parts: the components, without empty and "." ones; an
\* absolute path has the root "/" as its first part.
PathParts(s) ==
    LET comps == SelectSeq(Split(s, "/"), LAMBDA c : c # <<>> /\ c # <<".">>)
    IN IF s # <<>> /\ s[1] = "/" THEN <<<<"/">>>> \o comps ELSE comps

\* os.path.join(*parts)
RECURSIVE JoinPath(_, _)
JoinPath(acc, rest) ==
    IF rest = <<>> THEN acc
    ELSE LET p == rest[1]
         IN JoinPath(IF p # <<>> /\ p[1] = "/" THEN p
                     ELSE IF acc = <<>> \/ acc[Len(acc)] = "/" THEN acc \o p
                     ELSE acc \o <<"/">> \o p,
                     Tail(rest))

os_path_join(parts) == JoinPath(parts[1], Tail(parts))

\* The state of one build: the patterns list and the seen_dirs set.
BuildState(pats, seen) == [patterns |-> pats, seen_dirs |-> seen]

\* The loop of add_parents, from index i on.
RECURSIVE AddParentsFrom(_, _, _)
AddParentsFrom(parts, i, st) ==
    IF i > Len(parts) - 1 THEN st
    ELSE LET parent == os_path_join(SubSeq(parts, 1, i)) \o <<"/">>
         IN AddParentsFrom(parts, i + 1,
                IF parent \notin st.seen_dirs
                THEN BuildState(st.patterns \o <<INCLUDE, parent>>,
                                st.seen_dirs \cup {parent})
                ELSE st)

\* A plausible slip: the parents walked from the leaf up to the root.
RECURSIVE AddParentsDown(_, _, _)
AddParentsDown(parts, i, st) ==
    IF i < 1 THEN st
    ELSE LET parent == os_path_join(SubSeq(parts, 1, i)) \o <<"/">>
         IN AddParentsDown(parts, i - 1,
                IF parent \notin st.seen_dirs
                THEN BuildState(st.patterns \o <<INCLUDE, parent>>,
                                st.seen_dirs \cup {parent})
                ELSE st)

add_parents_leaf_first(path, st) ==
    AddParentsDown(PathParts(path), Len(PathParts(path)) - 1, st)

\* add_parents(path), acting on patterns and seen_dirs
add_parents(path, st) == AddParentsFrom(PathParts(path), 1, st)

\* for idir in included_dirs: ...
RECURSIVE IncludeDirs(_, _)
IncludeDirs(dirs, st) ==
    IF dirs = <<>> THEN st
    ELSE LET idir == RStripSlash(dirs[1]) \o <<"/">>
             st1 == add_parents(idir, st)
             st2 == IF idir \notin st1.seen_dirs
                    THEN BuildState(st1.patterns \o <<INCLUDE, idir>>,
                                    st1.seen_dirs \cup {idir})
                    ELSE st1
         IN IncludeDirs(Tail(dirs), st2)

\* for ifile in included_files: ...
RECURSIVE IncludeFiles(_, _)
IncludeFiles(files, st) ==
    IF files = <<>> THEN st
    ELSE LET st1 == add_parents(files[1], st)
         IN IncludeFiles(Tail(files),
                BuildState(st1.patterns \o <<INCLUDE, files[1]>>, st1.seen_dirs))

\* for edir in excluded_dirs: ...
RECURSIVE ExcludeDirs(_, _)
ExcludeDirs(dirs, pats) ==
    IF dirs = <<>> THEN pats
    ELSE ExcludeDirs(Tail(dirs), pats \o <<EXCLUDE, RStripSlash(dirs[1]) \o <<"/">>>>)

\* for efile in excluded_files: ...
RECURSIVE ExcludeFiles(_, _)
ExcludeFiles(files, pats) ==
    IF files = <<>> THEN pats
    ELSE ExcludeFiles(Tail(files), pats \o <<EXCLUDE, files[1]>>)

\* A plausible slip: the catch-all appended whatever the lists hold.
CatchAllAlways(incF, incD) == <<EXCLUDE, STAR>>

\* if included_files or included_dirs: patterns.extend(['--exclude', '*'])
CatchAll(incF, incD) ==
    IF incF # <<>> \/ incD # <<>> THEN <<EXCLUDE, STAR>> ELSE <<>>

\* rsync_backend.build_rsync_patterns
build_rsync_patterns(incF, incD, excF, excD) ==
    LET st1 == IncludeDirs(incD, BuildState(<<>>, {}))
        st2 == IncludeFiles(incF, st1)
        p3 == ExcludeDirs(excD, st2.patterns)
        p4 == ExcludeFiles(excF, p3)
    IN p4 \o CatchAll(incF, incD)

\* ------------------------------------------------------- filter inputs
Names == {"a", "b"}

\* The relative paths of one to d components drawn: a chain of directories
\* "a", and in each of them (and at the top) an "a" and a "b".
PathsTo(d) ==
    UNION {{Join([i \in 1..n |-> IF i < n THEN <<"a">> ELSE <<c>>], "/") : c \in Names} :
            n \in 1..d}

\* A directory entry comes with or without its trailing separator.
DirEntries(d) == PathsTo(d) \cup {p \o <<"/">> : p \in PathsTo(d)}
FileEntries(d) == PathsTo(d)

ListsOf(S, n) == [1..n -> S]

\* The exclude entries drawn; the code reads no structure in them.
ExcDirEntries == {<<"b">>, <<"b", "/">>}
ExcFileEntries == {<<"a">>, <<"b">>}

\* The pairs <<directory list, file list>> of at most m entries together.
ListPairs(D, F, m) ==
    UNION {{<<dl, fl>> : dl \in ListsOf(D, nd), fl \in ListsOf(F, nf)} :
            <<nd, nf>> \in {x \in (0..m) \X (0..m) : x[1] + x[2] <= m}}

FilterInit ==
    /\ built = FALSE
    /\ included_files = <<>>
    /\ included_dirs = <<>>
    /\ excluded_files = <<>>
    /\ excluded_dirs = <<>>
    /\ patterns = <<>>

\* A call of build_rsync_patterns; it keeps no state, so one call from the
\* start shows all it does.
BuildPatterns ==
    /\ ~built
    /\ \E inc \in ListPairs(DirEntries(MaxDepth), FileEntries(MaxDepth), MaxInc),
          exc \in ListPairs(ExcDirEntries, ExcFileEntries, MaxExc) :
        /\ built' = TRUE
        /\ included_dirs' = inc[1]
        /\ included_files' = inc[2]
        /\ excluded_dirs' = exc[1]
        /\ excluded_files' = exc[2]
        /\ patterns' = build_rsync_patterns(inc[2], inc[1], exc[2], exc[1])
    /\ UNCHANGED <<sched_vars, plan_vars>>

FilterNext == BuildPatterns

\* ------------------------------------------- rsync_backend: the planner
\* The directory the process runs in, and the log root DATA_LOG_DIR.
CWD == <<"/", "cwd">>
DATA_LOG_DIR == <<"/", "logs">>

\* os.path.abspath(path): made absolute from the working directory, and
\* normalised (no repeated or trailing separator).
abspath(path) ==
    os_path_join(PathParts(IF path # <<>> /\ path[1] = "/" THEN path
                           ELSE CWD \o <<"/">> \o path))

\* time.localtime(): the minute of the wall clock, which is that of the read
\* before or the next one.
localtime(last) == {t \in {last, last + 1} : t <= MaxClock}

\* time.strftime("%Y-%m-%d_%H-%M", time.localtime()): the minute, and nothing
\* finer, written out.
strftime(t) == <<"T">> \o PyStr(t)

\* A plausible slip: an attribute the instance already has is kept as it is.
SetAttrsKeepFirst(f, g) ==
    [k \in DOMAIN f \cup DOMAIN g |-> IF k \in DOMAIN f THEN f[k] ELSE g[k]]

\* The attributes of f, with those of g set.
SetAttrs(f, g) ==
    [k \in DOMAIN f \cup DOMAIN g |-> IF k \in DOMAIN g THEN g[k] ELSE f[k]]

\* An optional path argument: None, or the text given.
Path(p) == [path |-> p]
Truthy(opt) == opt # None /\ opt.path # <<>>

RSYNC_BASE ==
    <<<<"rsync">>, <<"--archive">>, <<"--acls">>, <<"--xattrs">>, <<"--hard-links">>,
      <<"--times">>, <<"--atimes">>, <<"--checksum">>, <<"--compress">>, <<"--partial">>>>

OptionFlags(dry_run, show_progress, delete_extra) ==
    (IF dry_run THEN <<<<"--dry-run">>>> ELSE <<>>)
    \o (IF show_progress THEN <<<<"--progress">>>> ELSE <<>>)
    \o (IF delete_extra THEN <<<<"--delete">>>> ELSE <<>>)

WithTrailingSlash(path) ==
    IF path # <<>> /\ path[Len(path)] = "/" THEN path ELSE path \o <<"/">>

\* rsync_backend.generate_rsync_command
generate_rsync_command(src, dst, incF, incD, excF, excD, dry_run, progress, delete) ==
    RSYNC_BASE \o OptionFlags(dry_run, progress, delete)
    \o build_rsync_patterns(incF, incD, excF, excD)
    \o <<WithTrailingSlash(abspath(src)), abspath(dst)>>

\* UserData_backend.scan_dirs: the pre-flight scan of source_dir, which counts
\* the files under it and their bytes; "docs" holds one file and every other
\* source none.
scan_dirs(source_dir) ==
    IF source_dir = <<"docs">> THEN [num_files |-> 1, total_size |-> 100]
    ELSE [num_files |-> 0, total_size |-> 0]

\* Path(dir).mkdir(parents=True, exist_ok=True)
mkdir(dirs, path) == dirs \cup {abspath(path)}
\* os.path.exists(path)
exists(dirs, path) == abspath(path) \in dirs

\* The log file of a run: <log root>/<name>/<name>_<timestamp>.log
LogDir(name) == os_path_join(<<DATA_LOG_DIR, name>>)
LogFile(name, ts) == os_path_join(<<LogDir(name), name \o <<"_">> \o ts \o <<".log">>>>)

\* What prep_rsync_backup and prep_incremental_backup both set on the
\* instance (lines 105-113 and 122-133; 176-184 and 199-210).
PlanAttrs(a, uuid, ts, scan) ==
    [repeat |-> a.repeat, uuid |-> uuid, backup_name |-> a.backup_name,
     source_dir |-> a.source_dir,
     excluded_files |-> a.excluded_files, excluded_dirs |-> a.excluded_dirs,
     included_files |-> a.included_files, included_dirs |-> a.included_dirs,
     timestamp |-> ts, backup_logfile |-> LogFile(a.backup_name, ts),
     operating |-> TRUE, num_files |-> scan.num_files, total_size |-> scan.total_size]

\* rsync_backend.prep_rsync_backup: the instance, the directories and the
\* plan returned.
prep_rsync_backup(obj, dirs, now, a, delete_extra, uuid, scan) ==
    LET ts == strftime(now)
        obj1 == SetAttrs(obj, SetAttrs(PlanAttrs(a, uuid, ts, scan),
                                       [dest_dir |-> a.dest_dir]))
    IN [self |-> obj1,
        fs |-> mkdir(dirs, LogDir(a.backup_name)),
        ret |-> Ret([cmd |-> generate_rsync_command(
                                obj1.source_dir, obj1.dest_dir,
                                obj1.included_files, obj1.included_dirs,
                                obj1.excluded_files, obj1.excluded_dirs,
                                a.dry_run, a.show_progress, delete_extra),
                     logfile |-> obj1.backup_logfile, uuid |-> obj1.uuid,
                     timestamp |-> obj1.timestamp, source |-> obj1.source_dir,
                     destination |-> obj1.dest_dir, name |-> obj1.backup_name])]

\* rsync_backend.prep_sync_backup
prep_sync_backup(obj, dirs, now, a, uuid, scan) ==
    prep_rsync_backup(obj, dirs, now, a, TRUE, uuid, scan)

\* A plausible slip: the baseline used without asking whether it exists.
LinkDestUnchecked(dirs, previous_backup_dest) ==
    IF Truthy(previous_backup_dest)
    THEN <<<<"--link-dest">>, abspath(previous_backup_dest.path)>>
    ELSE <<>>

\* if previous_backup_dest and os.path.exists(previous_backup_dest): ...
LinkDest(dirs, previous_backup_dest) ==
    IF Truthy(previous_backup_dest) /\ exists(dirs, previous_backup_dest.path)
    THEN <<<<"--link-dest">>, abspath(previous_backup_dest.path)>>
    ELSE <<>>

\* rsync_backend.prep_incremental_backup
prep_incremental_backup(obj, dirs, now, a, previous_backup_dest, uuid, scan) ==
    LET ts == strftime(now)
        dest == os_path_join(<<a.dest_dir, a.backup_name \o <<"_">> \o ts>>)
        obj1 == SetAttrs(obj, SetAttrs(PlanAttrs(a, uuid, ts, scan),
                    [base_dest_dir |-> a.dest_dir, dest_dir |-> dest,
                     previous_backup_dest |-> previous_backup_dest]))
        dirs1 == mkdir(mkdir(dirs, dest), LogDir(a.backup_name))
        rsync_cmd ==
            RSYNC_BASE \o OptionFlags(a.dry_run, a.show_progress, FALSE)
            \o LinkDest(dirs1, previous_backup_dest)
            \o build_rsync_patterns(obj1.included_files, obj1.included_dirs,
                                    obj1.excluded_files, obj1.excluded_dirs)
            \o <<WithTrailingSlash(abspath(obj1.source_dir)), obj1.dest_dir>>
    IN [self |-> obj1,
        fs |-> dirs1,
        ret |-> Ret([cmd |-> rsync_cmd,
                     logfile |-> obj1.backup_logfile, uuid |-> obj1.uuid,
                     timestamp |-> obj1.timestamp, source |-> obj1.source_dir,
                     destination |-> obj1.dest_dir, name |-> obj1.backup_name,
                     mode |-> "incremental", parent_backup |-> previous_backup_dest])]

\* ---- finish_rsync_backup
\* The entries of the error list: [str(detail), None] for a caught exception,
\* and the warning with its two counts.
ExceptionEntry(detail) == [entry |-> "exception", detail |-> detail]
ShortfallWarning(archived, total) ==
    [entry |-> "warning", archived |-> archived, total |-> total]

\* The attributes the record is built from, in the order they are read.
RecordAttrs ==
    <<"uuid", "backup_name", "backup_method", "backup_mode", "source_dir", "dest_dir",
      "timestamp", "repeat", "backup_desc", "excluded_dirs", "excluded_files",
      "included_dirs", "included_files", "backup_logfile", "num_files", "total_size">>

\* The first attribute of names that obj lacks (reading it raises
\* AttributeError), or "" when it has them all.
FirstMissing(obj, names) ==
    IF \A i \in 1..Len(names) : names[i] \in DOMAIN obj THEN ""
    ELSE names[CHOOSE i \in 1..Len(names) :
                 /\ names[i] \notin DOMAIN obj
                 /\ \A j \in 1..(i - 1) : names[j] \in DOMAIN obj]

\* data_backup_dict (lines 260-279)
BackupDict(obj) ==
    LET d == [uuid |-> obj.uuid, name |-> obj.backup_name, method |-> obj.backup_method,
              mode |-> obj.backup_mode, source |-> obj.source_dir,
              destination |-> obj.dest_dir, created |-> obj.timestamp,
              repeat |-> obj.repeat, comment |-> obj.backup_desc,
              exclude |-> <<obj.excluded_dirs, obj.excluded_files>>,
              include |-> <<obj.included_dirs, obj.included_files>>,
              logfile |-> obj.backup_logfile, count |-> obj.num_files,
              size |-> obj.total_size]
    IN IF obj.backup_mode = "incremental" /\ Truthy(obj.parent_backup)
       THEN SetAttrs(d, [parent_backup |-> obj.parent_backup])
       ELSE d

\* databackup_db.write_db(list): the store takes the list, or fails.
write_db(store, list, write_ok) ==
    IF write_ok THEN [db |-> list, raised |-> ""]
    ELSE [db |-> store, raised |-> "OSError"]

\* The inner try block (lines 260-282): what it leaves, and the exception
\* that ended it ("" when none did).
InnerTry(obj, list, store, given, write_ok) ==
    LET missing == FirstMissing(obj, RecordAttrs)
    IN IF missing # ""
       THEN [data_db_list |-> list, db |-> store, handed |-> given,
             raised |-> "AttributeError: " \o missing]
       ELSE LET list1 == Append(list, BackupDict(obj))
                w == write_db(store, list1, write_ok)
            IN [data_db_list |-> list1, db |-> w.db, handed |-> Append(given, list1),
                raised |-> w.raised]

\* A plausible slip: the handler of the inner try records nothing.
InnerExceptSilent(errs, raised) == errs

\* except Exception as detail: self.errors.append([str(detail), None])
InnerExcept(errs, raised) ==
    IF raised # "" THEN Append(errs, ExceptionEntry(raised)) ELSE errs

\* A plausible slip: "<=" for "<".
ShortfallCheckOrEqual(obj, errs) ==
    IF FirstMissing(obj, <<"archived_files", "num_files">>) # "" THEN errs
    ELSE IF obj.archived_files <= obj.num_files
    THEN Append(errs, ShortfallWarning(obj.archived_files, obj.num_files))
    ELSE errs

\* if self.archived_files < self.num_files: self.errors.append(...); an
\* AttributeError raised here is caught by the outer handler, which prints it.
ShortfallCheck(obj, errs) ==
    IF FirstMissing(obj, <<"archived_files", "num_files">>) # "" THEN errs
    ELSE IF obj.archived_files < obj.num_files
    THEN Append(errs, ShortfallWarning(obj.archived_files, obj.num_files))
    ELSE errs

\* A plausible slip: one try block, so that an exception of the first part
\* skips the check of the counts.
AfterInnerOneTry(obj, errs, raised) ==
    IF raised # "" THEN InnerExcept(errs, raised) ELSE ShortfallCheck(obj, errs)

\* What follows the inner try: its handler, then the check of the counts.
AfterInner(obj, errs, raised) == ShortfallCheck(obj, InnerExcept(errs, raised))

\* rsync_backend.finish_rsync_backup
finish_rsync_backup(obj, errs, list, store, given, f, write_ok) ==
    LET obj1 == SetAttrs(obj, [backup_method |-> f.backup_method, backup_desc |-> f.desc,
                               backup_mode |-> f.backup_mode,
                               parent_backup |-> f.parent_backup])
        inner == InnerTry(obj1, list, store, given, write_ok)
    IN [self |-> obj1,
        errors |-> AfterInner(obj1, errs, inner.raised),
        data_db_list |-> inner.data_db_list,
        db |-> inner.db,
        handed |-> inner.handed,
        ret |-> Ret(None)]

\* ------------------------------------------------------ planner inputs
\* The baselines given to an incremental run: none, a directory that exists
\* (given relative to the working directory), one that does not.
OLD_BACKUP == <<"old">>
PreviousChoices == {None, Path(OLD_BACKUP), Path(<<"/", "mnt", "/", "gone">>)}

\* The arguments of a prepare call, as two bundles.
PrepareArgs ==
    {[backup_name |-> <<"home">>, source_dir |-> <<"docs">>, dest_dir |-> <<"/", "mnt">>,
      included_files |-> <<>>, included_dirs |-> <<<<"a", "/", "b">>>>,
      excluded_files |-> <<<<"b">>>>, excluded_dirs |-> <<>>,
      dry_run |-> FALSE, show_progress |-> FALSE, delete_extra |-> FALSE,
      repeat |-> FALSE],
     [backup_name |-> <<"etc">>, source_dir |-> <<"/", "etc", "/">>,
      dest_dir |-> <<"/", "mnt">>,
      included_files |-> <<>>, included_dirs |-> <<>>,
      excluded_files |-> <<>>, excluded_dirs |-> <<>>,
      dry_run |-> TRUE, show_progress |-> TRUE, delete_extra |-> TRUE,
      repeat |-> TRUE]}

\* The 8 random characters of a uuid: what the k-th call of the instance draws
\* is a token of its own, the draws of one instance being taken to differ.
Uuids(k) == {<<"u">> \o PyStr(k)}

\* The arguments of a finish call.
FinishArgs ==
    {[desc |-> <<>>, backup_method |-> "rsync", backup_mode |-> "backup",
      parent_backup |-> None],
     [desc |-> <<"nightly">>, backup_method |-> "rsync", backup_mode |-> "incremental",
      parent_backup |-> Path(OLD_BACKUP)]}

\* ----------------------------------------------------- planner actions
\* rsync_backend.__init__, with an empty store and an earlier backup on disk.
PlanInit ==
    /\ self = <<>>
    /\ errors = <<>>
    /\ data_db_list = <<>>
    /\ db = <<>>
    /\ handed = <<>>
    /\ fs = {abspath(OLD_BACKUP)}
    /\ clock = 0
    /\ calls = 0
    /\ last_op = "init"
    /\ ret = Ret(None)
    /\ request = None

PrepRsync ==
    /\ calls < MaxCalls
    /\ \E a \in PrepareArgs, uuid \in Uuids(calls + 1),
          now \in localtime(clock) :
        LET r == prep_rsync_backup(self, fs, now, a, a.delete_extra, uuid, scan_dirs(a.source_dir))
        IN /\ self' = r.self
           /\ fs' = r.fs
           /\ ret' = r.ret
           /\ clock' = now
           /\ request' = [method |-> "prep_rsync_backup", args |-> a, previous_backup_dest |-> None,
                          uuid |-> uuid, now |-> now]
    /\ last_op' = "prep_rsync_backup"
    /\ calls' = calls + 1
    /\ UNCHANGED <<errors, data_db_list, db, handed, sched_vars, filter_vars>>

PrepSync ==
    /\ calls < MaxCalls
    /\ \E a \in PrepareArgs, uuid \in Uuids(calls + 1),
          now \in localtime(clock) :
        LET r == prep_sync_backup(self, fs, now, a, uuid, scan_dirs(a.source_dir))
        IN /\ self' = r.self
           /\ fs' = r.fs
           /\ ret' = r.ret
           /\ clock' = now
           /\ request' = [method |-> "prep_sync_backup", args |-> a, previous_backup_dest |-> None,
                          uuid |-> uuid, now |-> now]
    /\ last_op' = "prep_sync_backup"
    /\ calls' = calls + 1
    /\ UNCHANGED <<errors, data_db_list, db, handed, sched_vars, filter_vars>>

PrepIncremental ==
    /\ calls < MaxCalls
    /\ \E a \in PrepareArgs, prev \in PreviousChoices, uuid \in Uuids(calls + 1),
          now \in localtime(clock) :
        LET r == prep_incremental_backup(self, fs, now, a, prev, uuid, scan_dirs(a.source_dir))
        IN /\ self' = r.self
           /\ fs' = r.fs
           /\ ret' = r.ret
           /\ clock' = now
           /\ request' = [method |-> "prep_incremental_backup", args |-> a, previous_backup_dest |-> prev,
                          uuid |-> uuid, now |-> now]
    /\ last_op' = "prep_incremental_backup"
    /\ calls' = calls + 1
    /\ UNCHANGED <<errors, data_db_list, db, handed, sched_vars, filter_vars>>

PrepareOps == {"prep_rsync_backup", "prep_sync_backup", "prep_incremental_backup"}

\* The execution collaborator runs the prepared transfer and sets the count of
\* archived files on the instance.
Transfer ==
    /\ last_op \in PrepareOps
    /\ \E n \in 0..MaxFiles : self' = SetAttrs(self, [archived_files |-> n])
    /\ last_op' = "transfer"
    /\ UNCHANGED <<errors, data_db_list, db, handed, fs, clock, calls, ret, request,
                   sched_vars, filter_vars>>

Finish ==
    /\ calls < MaxCalls
    /\ \E f \in FinishArgs, write_ok \in BOOLEAN :
        LET r == finish_rsync_backup(self, errors, data_db_list, db, handed, f, write_ok)
        IN /\ self' = r.self
           /\ errors' = r.errors
           /\ data_db_list' = r.data_db_list
           /\ db' = r.db
           /\ handed' = r.handed
           /\ ret' = r.ret
    /\ last_op' = "finish_rsync_backup"
    /\ calls' = calls + 1
    /\ UNCHANGED <<fs, clock, request, sched_vars, filter_vars>>

Next == PrepRsync \/ PrepSync \/ PrepIncremental \/ Transfer \/ Finish

\* ---------------------------------------------------- specifications
Init == SchedInit /\ FilterInit /\ PlanInit

Spec == Init /\ [][Next]_vars

SchedSpec == Init /\ [][SchedNext]_vars

FilterSpec == Init /\ [][FilterNext]_vars

\* ------------------------------------------------ claims: the schedule
\* The malformed schedule texts: empty, an unknown first field, "custom" with
\* a field count other than three, "custom" whose value is no integer,
\* "custom" whose unit is none of hours, days, weeks.
Malformed(s) ==
    \/ s = <<>>
    \/ LET parts == Split(s, ":")
       IN \/ parts[1] \notin FixedKinds \cup {CUSTOM}
          \/ /\ parts[1] = CUSTOM
             /\ \/ Len(parts) # 3
                \/ ~IsIntLiteral(parts[2])
                \/ parts[3] \notin Units

\* C1: parse_interval never raises and returns None for every malformed
\* schedule text.
C1_MalformedParsesToNone ==
    (sched_op = "parse_interval" /\ Malformed(interval_str))
        => sched_out = Ret(None)

\* C2: for every valid schedule spec, parse_interval(format_interval(spec))
\* equals spec.
C2_RoundTrip ==
    (sched_op = "format_parse" /\ interval_dict \in ValidSpecs)
        => sched_out = Ret(interval_dict)

\* A custom schedule with a two-digit value went through format and parse.
C2_Witness ==
    /\ sched_op = "format_parse"
    /\ interval_dict = [type |-> CUSTOM, value |-> MaxValue, unit |-> <<"weeks">>]
    /\ interval_str = CUSTOM \o <<":">> \o PyStr(MaxValue) \o <<":", "weeks">>
    /\ Len(PyStr(MaxValue)) > 1
    /\ sched_out = Ret(interval_dict)

\* The fixed offset of a schedule, in minutes: hourly 1 h, daily 1 d, weekly
\* 7 d, monthly 30 d, custom value x unit; NoTime when there is none.
ClaimedOffset(d) ==
    IF d.type = <<"hourly">> THEN AtTime(60)
    ELSE IF d.type = <<"daily">> THEN AtTime(24 * 60)
    ELSE IF d.type = <<"weekly">> THEN AtTime(7 * 24 * 60)
    ELSE IF d.type = <<"monthly">> THEN AtTime(30 * 24 * 60)
    ELSE IF d.unit = <<"hours">> THEN AtTime(d.value * 60)
    ELSE IF d.unit = <<"days">> THEN AtTime(d.value * 24 * 60)
    ELSE IF d.unit = <<"weeks">> THEN AtTime(d.value * 7 * 24 * 60)
    ELSE NoTime

\* last_run, with a missing or unreadable one replaced by the current time.
EffectiveLastRun ==
    IF last_run.type = "None" \/ (last_run.type = "str" /\ ~last_run.valid)
    THEN now_reads[1]
    ELSE last_run.t

\* What is_due is to return: false for a text that is no schedule or has no
\* next run time, else whether now >= last run + offset.
ClaimedDue ==
    LET p == parse_interval(interval_str)
    IN IF p.kind = "return" /\ p.val # None /\ ClaimedOffset(p.val) # NoTime
       THEN now_reads[2] >= EffectiveLastRun + ClaimedOffset(p.val).t
       ELSE FALSE

\* C5: is_due returns false when the text parses to null or has no next run
\* time, and otherwise true exactly when now >= last run + fixed offset.
C5_IsDueReturnsClaimed ==
    sched_op = "is_due" => sched_out = Ret(ClaimedDue)

\* Whenever is_due returns at all, it returns what C5 says: C5 fails only on
\* the texts on which parse_interval raises.
IsDueReturnsClaimedOrRaises ==
    sched_op = "is_due" =>
        \/ sched_out = Ret(ClaimedDue)
        \/ /\ sched_out = Raise("ValueError")
           /\ parse_interval(interval_str) = Raise("ValueError")

\* is_due answered at the very minute the run became due, and one before.
IsDueBoundaryReached ==
    /\ sched_op = "is_due"
    /\ interval_str = <<"weekly">>
    /\ last_run = LastRunText(LastRunAt)
    /\ now_reads[2] = LastRunAt + WEEK
    /\ sched_out = Ret(TRUE)


\* --------------------------------------------- claims: the filter rules
\* The output read as rules: pairs of a verb and a pattern.
RuleAt(k) == [verb |-> patterns[2 * k - 1], pat |-> patterns[2 * k]]
NumRules == Len(patterns) \div 2
IncludeRule(p) == [verb |-> INCLUDE, pat |-> p]
ExcludeRule(p) == [verb |-> EXCLUDE, pat |-> p]

\* The components of an entry, and the directory pattern of its first k.
Components(s) == SelectSeq(Split(s, "/"), LAMBDA c : c # <<>>)
DirPattern(comps, k) == Join(SubSeq(comps, 1, k), "/") \o <<"/">>

\* What an included directory asks for: its ancestors from the root down,
\* then itself; an included file: its ancestors, then the file as given.
DirChain(d) ==
    [k \in 1..Len(Components(d)) |->
        [pat |-> DirPattern(Components(d), k), dir |-> TRUE]]
FileChain(f) ==
    [k \in 1..(Len(Components(f)) - 1) |->
        [pat |-> DirPattern(Components(f), k), dir |-> TRUE]]
    \o <<[pat |-> f, dir |-> FALSE]>>

RECURSIVE Flatten(_)
Flatten(seqs) == IF seqs = <<>> THEN <<>> ELSE seqs[1] \o Flatten(Tail(seqs))

\* Everything asked for, directories' chains first, then files' chains.
Asked ==
    Flatten([i \in 1..Len(included_dirs) |-> DirChain(included_dirs[i])])
    \o Flatten([i \in 1..Len(included_files) |-> FileChain(included_files[i])])

\* Of these, the ones not yet emitted: a directory pattern is kept at its
\* first place only, a file is always kept.
RECURSIVE KeptFrom(_, _)
KeptFrom(asked, i) ==
    IF i > Len(asked) THEN <<>>
    ELSE (IF asked[i].dir /\ \E j \in 1..(i - 1) : asked[j] = asked[i]
          THEN <<>> ELSE <<IncludeRule(asked[i].pat)>>) \o KeptFrom(asked, i + 1)

ExpectedIncludes == KeptFrom(Asked, 1)

ExpectedExcludes ==
    [i \in 1..Len(excluded_dirs) |->
        ExcludeRule(RStripSlash(excluded_dirs[i]) \o <<"/">>)]
    \o [i \in 1..Len(excluded_files) |-> ExcludeRule(excluded_files[i])]

\* Pattern p names a directory that q lies below.
IsAncestorDir(p, q) ==
    /\ p # <<>> /\ p[Len(p)] = "/"
    /\ Len(p) < Len(q)
    /\ SubSeq(q, 1, Len(p)) = p

EndsWithCatchAll ==
    /\ Len(patterns) >= 2
    /\ SubSeq(patterns, Len(patterns) - 1, Len(patterns)) = <<EXCLUDE, STAR>>

\* C4: the output ends with Exclude '*' exactly when an include list is
\* non-empty; with only excludes nothing is appended to them, and with all
\* four lists empty the output is empty.
C4_CatchAll ==
    built =>
        /\ EndsWithCatchAll <=> (included_files # <<>> \/ included_dirs # <<>>)
        /\ (included_files = <<>> /\ included_dirs = <<>>)
              => Len(patterns) = 2 * (Len(excluded_dirs) + Len(excluded_files))
        /\ (included_files = <<>> /\ included_dirs = <<>>
              /\ excluded_files = <<>> /\ excluded_dirs = <<>>) => patterns = <<>>

\* A call with excludes only, which got no catch-all.
C4_Witness ==
    /\ built
    /\ included_files = <<>> /\ included_dirs = <<>>
    /\ excluded_files = <<<<"a">>>> /\ excluded_dirs = <<<<"b", "/">>>>
    /\ patterns = <<EXCLUDE, <<"b", "/">>, EXCLUDE, <<"a">>>>

\* ------------------------------------------------- claims: the planner
\* The steps that are a call of prep_incremental_backup, and of
\* finish_rsync_backup.
IncrementalStep == calls' = calls + 1 /\ last_op' = "prep_incremental_backup"
FinishStep == calls' = calls + 1 /\ last_op' = "finish_rsync_backup"

\* C6: the destination directory of a prep_incremental_backup run is not a
\* directory that was there before the run: each run gets a directory of its
\* own, freshly created.
C6_FreshDestination ==
    [][IncrementalStep => abspath(self'.dest_dir) \notin fs]_vars

\* The positions of cmd that hold the --link-dest flag.
LinkDestAt(cmd) == {i \in 1..Len(cmd) : cmd[i] = <<"--link-dest">>}

\* C7: the command of prep_incremental_backup holds --link-dest, followed by
\* the previous backup path made absolute, exactly when a previous backup
\* destination was given and is there; in every case the call returns a plan
\* and leaves the error list as it was.
C7_LinkDestIffBaselineExists ==
    [][IncrementalStep =>
        LET prev == self'.previous_backup_dest
            cmd == ret'.val.cmd
            given == Truthy(prev) /\ abspath(prev.path) \in fs'
        IN /\ ret'.kind = "return"
           /\ errors' = errors
           /\ (LinkDestAt(cmd) # {}) <=> given
           /\ given => \A i \in LinkDestAt(cmd) :
                           i < Len(cmd) /\ cmd[i + 1] = abspath(prev.path)
           /\ Cardinality(LinkDestAt(cmd)) <= 1]_vars

\* An incremental plan made against a baseline that is not there: a plan
\* without the flag, and no entry in the error list.
C7_Witness ==
    /\ last_op = "prep_incremental_backup"
    /\ self.previous_backup_dest = Path(<<"/", "mnt", "/", "gone">>)
    /\ ret.kind = "return"
    /\ ret.val.mode = "incremental"
    /\ LinkDestAt(ret.val.cmd) = {}
    /\ errors = <<>>

\* The entries a step appended to the error list.
NewErrors == SubSeq(errors', Len(errors) + 1, Len(errors'))
Warnings(es) == {i \in 1..Len(es) : es[i].entry = "warning"}
Exceptions(es) == {i \in 1..Len(es) : es[i].entry = "exception"}
\* The step kept the history and appended one record to it.
RecordAppended ==
    /\ Len(data_db_list') = Len(data_db_list) + 1
    /\ SubSeq(data_db_list', 1, Len(data_db_list)) = data_db_list
Prepared == "uuid" \in DOMAIN self
ArchivedSet == "archived_files" \in DOMAIN self

\* C8: a finish_rsync_backup call after a prepare call, with the archived
\* count set, appends one shortfall warning with the two counts when the
\* archived count is below the scanned count, and no warning otherwise; in
\* both cases the record is appended to the history list and the list is
\* handed to the store.
C8_ShortfallWarning ==
    [][(FinishStep /\ Prepared /\ ArchivedSet) =>
        /\ errors = SubSeq(errors', 1, Len(errors))
        /\ IF self.archived_files < self.num_files
           THEN /\ Cardinality(Warnings(NewErrors)) = 1
                /\ \A i \in Warnings(NewErrors) :
                     NewErrors[i] = ShortfallWarning(self.archived_files, self.num_files)
           ELSE Warnings(NewErrors) = {}
        /\ RecordAppended
        /\ data_db_list'[Len(data_db_list')].uuid = self.uuid
        /\ handed' = Append(handed, data_db_list')]_vars

\* A finished run that archived no file of the one counted: the warning is in
\* the error list, the record in the history and in the store.
C8_Witness ==
    /\ last_op = "finish_rsync_backup"
    /\ Prepared /\ ArchivedSet
    /\ self.archived_files = 0 /\ self.num_files = 1
    /\ errors = <<ShortfallWarning(0, 1)>>
    /\ Len(data_db_list) = 1
    /\ db = data_db_list
    /\ handed = <<data_db_list>>

\* The step handed the list to the store and the store did not take it.
WriteFailed == handed' # handed /\ db' # data_db_list'

\* C9: when the write to the store fails in finish_rsync_backup, the call
\* returns to its caller, one entry describing the failure is appended to the
\* error list, the check of the archived count against the scanned count is
\* still made, and the new record stays in the history list.
C9_WriteFailureContained ==
    [][(FinishStep /\ WriteFailed) =>
        /\ ret' = Ret(None)
        /\ errors = SubSeq(errors', 1, Len(errors))
        /\ Cardinality(Exceptions(NewErrors)) = 1
        /\ \A i \in Exceptions(NewErrors) : NewErrors[i] = ExceptionEntry("OSError")
        /\ (Warnings(NewErrors) # {})
              <=> (ArchivedSet /\ self.archived_files < self.num_files)
        /\ Cardinality(Warnings(NewErrors)) <= 1
        /\ RecordAppended
        /\ data_db_list'[Len(data_db_list')].uuid = self.uuid]_vars

\* A finish whose write failed after a transfer that fell short: both entries
\* are in the error list, and the record is in the history but not the store.
C9_Witness ==
    /\ last_op = "finish_rsync_backup"
    /\ errors = <<ExceptionEntry("OSError"), ShortfallWarning(0, 1)>>
    /\ Len(data_db_list) = 1
    /\ db = <<>>
    /\ handed = <<data_db_list>>

\* C10, as stated: finish_rsync_backup on an instance on which no prepare
\* call was made raises to its caller.
C10_FinishUnpreparedRaises ==
    (last_op = "finish_rsync_backup" /\ ~Prepared) => ret.kind = "raise"

\* C10, amended: finish_rsync_backup on an instance on which no prepare call
\* was made returns to its caller; each such call appends one entry naming the
\* attribute error to the error list and nothing else, and no record reaches
\* the history list or the store.
C10_FinishUnpreparedCaught ==
    (last_op = "finish_rsync_backup" /\ ~Prepared) =>
        /\ ret = Ret(None)
        /\ errors = [i \in 1..calls |-> ExceptionEntry("AttributeError: uuid")]
        /\ data_db_list = <<>>
        /\ handed = <<>>
        /\ db = <<>>

\* A first call that is a finish, after which the attribute error is in the
\* error list.
C10_Witness ==
    /\ last_op = "finish_rsync_backup"
    /\ ~Prepared
    /\ calls = 1
    /\ ret = Ret(None)
    /\ errors = <<ExceptionEntry("AttributeError: uuid")>>

\* C11: on one instance, over any sequence of prepare and finish calls, the
\* record a finish call appends carries the identifier, name, source,
\* destination, timestamp, rule lists and file count and size of the most
\* recent prepare call, whichever call came before it; and no step changes a
\* record that is already in the history list.
C11_RecordOfMostRecentPrepare ==
    [][/\ Len(data_db_list') >= Len(data_db_list)
       /\ SubSeq(data_db_list', 1, Len(data_db_list)) = data_db_list
       /\ (FinishStep /\ request # None) =>
            LET a == request.args
                rec == data_db_list'[Len(data_db_list')]
                ts == strftime(request.now)
                scan == scan_dirs(a.source_dir)
            IN /\ Len(data_db_list') = Len(data_db_list) + 1
               /\ rec.uuid = request.uuid
               /\ rec.name = a.backup_name
               /\ rec.source = a.source_dir
               /\ rec.destination =
                    IF request.method = "prep_incremental_backup"
                    THEN os_path_join(<<a.dest_dir, a.backup_name \o <<"_">> \o ts>>)
                    ELSE a.dest_dir
               /\ rec.created = ts
               /\ rec.include = <<a.included_dirs, a.included_files>>
               /\ rec.exclude = <<a.excluded_dirs, a.excluded_files>>
               /\ rec.count = scan.num_files
               /\ rec.size = scan.total_size]_vars

\* A prepare for "home", then a prepare for "etc", then a finish: the one
\* record of the history is that of "etc", with the second call's identifier.
C11_Witness ==
    /\ last_op = "finish_rsync_backup"
    /\ calls = 3
    /\ LogDir(<<"home">>) \in fs
    /\ request.args.backup_name = <<"etc">>
    /\ {request.uuid} = Uuids(2)
    /\ Len(data_db_list) = 1
    /\ data_db_list[1].name = <<"etc">>
    /\ {data_db_list[1].uuid} = Uuids(2)
    /\ data_db_list[1].source = <<"/", "etc", "/">>

====
